---- MODULE Spec2Model ----
(***************************************************************************)
(* Model of src/src/sign.rs: the three-variant Sign enumeration, its       *)
(* arithmetic against the signed numeric types of sign_mul! and against    *)
(* other signs, negate() and the three variant predicates.                 *)
(*                                                                         *)
(* A program holds one Sign variable, one signed integer variable of Bits  *)
(* bits and one floating-point variable, and applies the operators of the  *)
(* file to them one at a time.  Each step records the operation, its Sign  *)
(* argument, the operands before the step and the value it returned.       *)
(***************************************************************************)
EXTENDS Integers, FiniteSets, Sequences, TLC

\* ------------------------------------------------------------------ bounds
\* Width of the modelled signed integer type (the source instantiates the
\* macro at 8, 16, 32, 64 and 128 bits; every width behaves alike).
Bits == 4
\* Largest finite floating-point magnitude that is distinguished.
MaxMag == 2

\* ------------------------------------------------------------- enum Sign
Positive == "Positive"
Negative == "Negative"
Zero == "Zero"
Sign == {Positive, Negative, Zero}

\* `self as u8`: the discriminant of a variant, in declaration order.
as_u8(self) == CASE self = Positive -> 0
                 [] self = Negative -> 1
                 [] self = Zero -> 2

\* impl Default for Sign
Sign_default == Zero

\* ---------------------------------------------------------- numeric types
MinInt == -(2 ^ (Bits - 1))
MaxInt == (2 ^ (Bits - 1)) - 1
Int_t == MinInt .. MaxInt

\* Two's complement reduction of an integer to Bits bits.
Wrap(n) == ((n - MinInt) % (2 ^ Bits)) + MinInt

\* A float is a sign bit, a class and (for finite non-zero values) a magnitude.
Float_t == [neg : BOOLEAN, class : {"zero", "inf", "nan"}, mag : {0}]
             \cup [neg : BOOLEAN, class : {"finite"}, mag : 1 .. MaxMag]

\* NumberExt::zero() of crate::shim: the canonical zero of the type.
zero_int == 0
zero_float == [neg |-> FALSE, class |-> "zero", mag |-> 0]

\* The outcome of an integer operation: a value, or an overflow panic.
Ok(v) == [ok |-> TRUE, val |-> v]
Panic == [ok |-> FALSE, val |-> 0]

VARIABLES overflow_checks, sign, ival, fval, op, arg, pre, ret, panicked

vars == <<overflow_checks, sign, ival, fval, op, arg, pre, ret, panicked>>

\* Unary minus of a signed integer type: the value -x when it is
\* representable; for the minimum value a panic when the build checks
\* overflow and the wrapped value otherwise.
neg_int(x) == IF -x \in Int_t THEN Ok(-x)
              ELSE IF overflow_checks THEN Panic ELSE Ok(Wrap(-x))

\* Unary minus of a float: flips the sign bit, of every class.
neg_float(x) == [x EXCEPT !.neg = ~x.neg]

\* ------------------------------------------------- Sign::is_* predicates
is_positive(self) == as_u8(self) = as_u8(Positive)

is_negative(self) == as_u8(self) = as_u8(Negative)

is_zero_bug(self) == as_u8(self) = as_u8(Negative)
is_zero(self) == as_u8(self) = as_u8(Zero)

\* ------------------------------------------------------------ Sign::negate
negate_bug(self) == CASE self = Positive -> Negative
                      [] self = Negative -> Positive
                      [] self = Zero -> Positive
negate(self) == CASE self = Positive -> Negative
                  [] self = Negative -> Positive
                  [] self = Zero -> Zero

\* ------------------------------------------------ sign_mul! for integers
\* impl Mul<$type> for Sign
Sign_mul_int_bug(self, rhs) == CASE self = Positive -> Ok(rhs)
                                 [] self = Negative -> Ok(rhs)
                                 [] self = Zero -> Ok(zero_int)
Sign_mul_int(self, rhs) == CASE self = Positive -> Ok(rhs)
                             [] self = Negative -> neg_int(rhs)
                             [] self = Zero -> Ok(zero_int)

\* impl Mul<Sign> for $type
int_mul_Sign(self, rhs) == CASE rhs = Positive -> Ok(self)
                             [] rhs = Negative -> neg_int(self)
                             [] rhs = Zero -> Ok(zero_int)

\* impl MulAssign<Sign> for $type: the outcome is the new value of *self.
int_mul_assign_bug(self, rhs) == IF is_negative(rhs) THEN neg_int(self)
                                 ELSE IF is_zero(rhs) THEN Ok(zero_int) ELSE Ok(self)
int_mul_assign(self, rhs) == IF is_negative(rhs) THEN neg_int(self) ELSE Ok(self)

\* impl Div<Sign> for $type
int_div_bug(self, rhs) == IF rhs = Zero THEN Ok(self) ELSE int_mul_Sign(self, rhs)
int_div(self, rhs) == int_mul_Sign(self, rhs)

\* impl DivAssign<Sign> for $type
int_div_assign(self, rhs) == int_mul_assign(self, rhs)

\* -------------------------------------------------- sign_mul! for floats
Sign_mul_float(self, rhs) == CASE self = Positive -> rhs
                               [] self = Negative -> neg_float(rhs)
                               [] self = Zero -> zero_float

float_mul_Sign(self, rhs) == CASE rhs = Positive -> self
                               [] rhs = Negative -> neg_float(self)
                               [] rhs = Zero -> zero_float

float_mul_assign(self, rhs) == IF is_negative(rhs) THEN neg_float(self) ELSE self

float_div(self, rhs) == float_mul_Sign(self, rhs)

float_div_assign(self, rhs) == float_mul_assign(self, rhs)

\* ------------------------------------------------------------ Sign by Sign
\* impl Mul<Sign> for Sign
Sign_mul_bug(self, rhs) == CASE self = Zero \/ rhs = Zero -> Zero
                             [] self = Positive /\ rhs = Positive -> Positive
                             [] self = Negative /\ rhs = Negative -> Negative
                             [] OTHER -> Negative
Sign_mul(self, rhs) == CASE self = Zero \/ rhs = Zero -> Zero
                         [] (self = Positive /\ rhs = Positive)
                              \/ (self = Negative /\ rhs = Negative) -> Positive
                         [] (self = Positive /\ rhs = Negative)
                              \/ (self = Negative /\ rhs = Positive) -> Negative

\* impl MulAssign<Sign> for Sign: the new value of *self.
Sign_mul_assign_bug(self, rhs) == rhs
Sign_mul_assign(self, rhs) == Sign_mul(self, rhs)

\* impl Div<Sign> for Sign
Sign_div_bug(self, rhs) == IF rhs = Zero THEN self ELSE Sign_mul(self, rhs)
Sign_div(self, rhs) == Sign_mul(self, rhs)

\* impl DivAssign<Sign> for Sign
Sign_div_assign(self, rhs) == Sign_mul_assign(self, rhs)

\* ------------------------------------------------------------------ state
\* The return slot of a step that returns nothing of a given type.
NoRet == [sign |-> Zero, ival |-> zero_int, fval |-> zero_float, bool |-> FALSE]

held == [sign |-> sign, ival |-> ival, fval |-> fval]

TypeOK == /\ overflow_checks \in BOOLEAN
          /\ sign \in Sign
          /\ ival \in Int_t
          /\ fval \in Float_t
          /\ arg \in Sign
          /\ pre \in [sign : Sign, ival : Int_t, fval : Float_t]
          /\ ret \in [sign : Sign, ival : Int_t, fval : Float_t, bool : BOOLEAN]
          /\ panicked \in BOOLEAN

\* `let mut s = Sign::default(); let mut i = 0; let mut f = 0.0;` under
\* either build profile.
Init == /\ overflow_checks \in BOOLEAN
        /\ sign = Sign_default
        /\ ival = zero_int
        /\ fval = zero_float
        /\ op = "default"
        /\ arg = Zero
        /\ pre = [sign |-> Sign_default, ival |-> zero_int, fval |-> zero_float]
        /\ ret = NoRet
        /\ panicked = FALSE

\* s = Sign::default()
Default == /\ ~panicked
           /\ sign' = Sign_default
           /\ op' = "default"
           /\ arg' = Zero
           /\ pre' = [held EXCEPT !.sign = Sign_default]
           /\ ret' = NoRet
    /\ UNCHANGED <<overflow_checks, ival, fval, panicked>>

\* s = Sign::Positive | Sign::Negative | Sign::Zero
Construct(s) == /\ ~panicked
                /\ sign' = s
                /\ op' = "construct"
                /\ arg' = s
                /\ pre' = [held EXCEPT !.sign = s]
                /\ ret' = NoRet
    /\ UNCHANGED <<overflow_checks, ival, fval, panicked>>

\* i = <integer literal>
LetInt(v) == /\ ~panicked
             /\ ival' = v
             /\ op' = "let_int"
             /\ arg' = Zero
             /\ pre' = [held EXCEPT !.ival = v]
             /\ ret' = NoRet
    /\ UNCHANGED <<overflow_checks, sign, fval, panicked>>

\* f = <float literal>
LetFloat(x) == /\ ~panicked
               /\ fval' = x
               /\ op' = "let_float"
               /\ arg' = Zero
               /\ pre' = [held EXCEPT !.fval = x]
               /\ ret' = NoRet
    /\ UNCHANGED <<overflow_checks, sign, ival, panicked>>

\* A step that returns an integer outcome and leaves the variables alone.
IntReturn(name, s, out) ==
    /\ ~panicked
    /\ op' = name
    /\ arg' = s
    /\ pre' = held
    /\ IF out.ok THEN ret' = [NoRet EXCEPT !.ival = out.val] /\ panicked' = FALSE
                 ELSE ret' = NoRet /\ panicked' = TRUE
    /\ UNCHANGED <<overflow_checks, sign, ival, fval>>

\* A step that assigns an integer outcome to the integer variable.
IntAssign(name, s, out) ==
    /\ ~panicked
    /\ op' = name
    /\ arg' = s
    /\ pre' = held
    /\ IF out.ok THEN ival' = out.val /\ panicked' = FALSE
                 ELSE ival' = ival /\ panicked' = TRUE
    /\ ret' = NoRet
    /\ UNCHANGED <<overflow_checks, sign, fval>>

\* s * i
SignMulInt(s) == IntReturn("Sign_mul_int", s, Sign_mul_int(s, ival))

\* i * s
IntMulSign(s) == IntReturn("int_mul_Sign", s, int_mul_Sign(ival, s))

\* i *= s
IntMulAssign(s) == IntAssign("int_mul_assign", s, int_mul_assign(ival, s))

\* i / s
IntDiv(s) == IntReturn("int_div", s, int_div(ival, s))

\* i /= s
IntDivAssign(s) == IntAssign("int_div_assign", s, int_div_assign(ival, s))

\* A step that returns a float and leaves the variables alone.
FloatReturn(name, s, x) ==
    /\ ~panicked
    /\ op' = name
    /\ arg' = s
    /\ pre' = held
    /\ ret' = [NoRet EXCEPT !.fval = x]
    /\ UNCHANGED <<overflow_checks, sign, ival, fval, panicked>>

\* A step that assigns a float to the float variable.
FloatAssign(name, s, x) ==
    /\ ~panicked
    /\ op' = name
    /\ arg' = s
    /\ pre' = held
    /\ fval' = x
    /\ ret' = NoRet
    /\ UNCHANGED <<overflow_checks, sign, ival, panicked>>

\* s * f
SignMulFloat(s) == FloatReturn("Sign_mul_float", s, Sign_mul_float(s, fval))

\* f * s
FloatMulSign(s) == FloatReturn("float_mul_Sign", s, float_mul_Sign(fval, s))

\* f *= s
FloatMulAssign(s) == FloatAssign("float_mul_assign", s, float_mul_assign(fval, s))

\* f / s
FloatDiv(s) == FloatReturn("float_div", s, float_div(fval, s))

\* f /= s
FloatDivAssign(s) == FloatAssign("float_div_assign", s, float_div_assign(fval, s))

\* A step that returns a sign and leaves the variables alone.
SignReturn(name, s, r) ==
    /\ ~panicked
    /\ op' = name
    /\ arg' = s
    /\ pre' = held
    /\ ret' = [NoRet EXCEPT !.sign = r]
    /\ UNCHANGED <<overflow_checks, sign, ival, fval, panicked>>

\* A step that assigns a sign to the sign variable.
SignAssign(name, s, r) ==
    /\ ~panicked
    /\ op' = name
    /\ arg' = s
    /\ pre' = held
    /\ sign' = r
    /\ ret' = NoRet
    /\ UNCHANGED <<overflow_checks, ival, fval, panicked>>

\* sign * s
SignMulSign(s) == SignReturn("Sign_mul", s, Sign_mul(sign, s))

\* sign *= s
SignMulAssignSign(s) == SignAssign("Sign_mul_assign", s, Sign_mul_assign(sign, s))

\* sign / s
SignDivSign(s) == SignReturn("Sign_div", s, Sign_div(sign, s))

\* sign /= s
SignDivAssignSign(s) == SignAssign("Sign_div_assign", s, Sign_div_assign(sign, s))

\* sign = sign.negate()
Negate == SignAssign("negate", Zero, negate(sign))

\* A step that returns a boolean and leaves the variables alone.
BoolReturn(name, b) ==
    /\ ~panicked
    /\ op' = name
    /\ arg' = Zero
    /\ pre' = held
    /\ ret' = [NoRet EXCEPT !.bool = b]
    /\ UNCHANGED <<overflow_checks, sign, ival, fval, panicked>>

\* sign.is_positive()
IsPositive == BoolReturn("is_positive", is_positive(sign))

\* sign.is_negative()
IsNegative == BoolReturn("is_negative", is_negative(sign))

\* sign.is_zero()
IsZero == BoolReturn("is_zero", is_zero(sign))

Next == \/ Default
        \/ \E s \in Sign : Construct(s)
        \/ \E v \in Int_t : LetInt(v)
        \/ \E x \in Float_t : LetFloat(x)
        \/ \E s \in Sign : SignMulInt(s)
        \/ \E s \in Sign : IntMulSign(s)
        \/ \E s \in Sign : IntMulAssign(s)
        \/ \E s \in Sign : IntDiv(s)
        \/ \E s \in Sign : IntDivAssign(s)
        \/ \E s \in Sign : SignMulFloat(s)
        \/ \E s \in Sign : FloatMulSign(s)
        \/ \E s \in Sign : FloatMulAssign(s)
        \/ \E s \in Sign : FloatDiv(s)
        \/ \E s \in Sign : FloatDivAssign(s)
        \/ \E s \in Sign : SignMulSign(s)
        \/ \E s \in Sign : SignMulAssignSign(s)
        \/ \E s \in Sign : SignDivSign(s)
        \/ \E s \in Sign : SignDivAssignSign(s)
        \/ Negate
        \/ IsPositive
        \/ IsNegative
        \/ IsZero

Spec == Init /\ [][Next]_vars

\* ================================================================ claims
\* The table in the doc comment of impl Mul<Sign> for Sign: Zero if either
\* side is Zero, Positive if both sides are the same, Negative otherwise.
MulTable(a, b) == IF a = Zero \/ b = Zero THEN Zero
                  ELSE IF a = b THEN Positive ELSE Negative

\* C1: for every pair of signs (a, b), a * b is the entry of the documented
\* table: Zero if either operand is Zero, Positive if both are the same
\* non-zero sign, Negative if they are the two different non-zero signs.
Thm_C1_MulTable ==
    /\ \A a \in Sign : \A b \in Sign : Sign_mul(a, b) = MulTable(a, b)
    /\ op = "Sign_mul" => ret.sign = MulTable(pre.sign, arg)

Wit_C1_MulTable ==
    op = "Sign_mul" /\ pre.sign = Negative /\ arg = Negative /\ ret.sign = Positive

\* C2: for every value v of a signed numeric type, Sign * v and v * Sign have
\* the same outcome: v for Positive, the outcome of -v for Negative (the
\* arithmetic negation whenever it is representable), the canonical zero of
\* the type for Zero.
Thm_C2_MulNumeric ==
    /\ \A s \in Sign : Sign_mul_int(s, ival) = int_mul_Sign(ival, s)
    /\ Sign_mul_int(Positive, ival) = Ok(ival)
    /\ Sign_mul_int(Negative, ival) = neg_int(ival)
    /\ ival # MinInt => Sign_mul_int(Negative, ival) = Ok(0 - ival)
    /\ Sign_mul_int(Zero, ival) = Ok(0)
    /\ \A s \in Sign : Sign_mul_float(s, fval) = float_mul_Sign(fval, s)
    /\ Sign_mul_float(Positive, fval) = fval
    /\ Sign_mul_float(Negative, fval) = [neg |-> ~fval.neg, class |-> fval.class,
                                         mag |-> fval.mag]
    /\ Sign_mul_float(Zero, fval) = [neg |-> FALSE, class |-> "zero", mag |-> 0]
    /\ (op = "Sign_mul_int" /\ ~panicked /\ pre.ival # MinInt) =>
           ret.ival = (CASE arg = Positive -> pre.ival
                         [] arg = Negative -> 0 - pre.ival
                         [] arg = Zero -> 0)
    /\ (op = "int_mul_Sign" /\ ~panicked /\ pre.ival # MinInt) =>
           ret.ival = (CASE arg = Positive -> pre.ival
                         [] arg = Negative -> 0 - pre.ival
                         [] arg = Zero -> 0)

Wit_C2_MulNumeric ==
    op = "Sign_mul_int" /\ arg = Negative /\ pre.ival = 2 /\ ret.ival = -2

\* C3 as stated: v *= sign negates v in place iff sign is Negative, leaves v
\* unchanged for Positive and Zero, and for every v the result of v *= Zero
\* differs from the result of v * Zero.
Orig_C3_AssignAsymmetry ==
    /\ op = "int_mul_assign" =>
          /\ arg = Negative => (panicked <=> ~neg_int(pre.ival).ok)
          /\ (arg = Negative /\ ~panicked) => ival = neg_int(pre.ival).val
          /\ arg # Negative => (~panicked /\ ival = pre.ival)
          /\ arg = Zero => Ok(ival) # int_mul_Sign(pre.ival, Zero)
    /\ op = "float_mul_assign" =>
          /\ arg = Negative => fval = neg_float(pre.fval)
          /\ arg # Negative => fval = pre.fval
          /\ arg = Zero => fval # float_mul_Sign(pre.fval, Zero)

\* C3 (amended): v *= Negative has the outcome of v = -v, v *= Positive and
\* v *= Zero leave v unchanged; the result of v *= Zero differs from the
\* result of v * Zero whenever v is not zero, and the two coincide when v is
\* the canonical zero.
Thm_C3_AssignAsymmetry ==
    /\ op = "int_mul_assign" =>
          /\ arg = Negative => (panicked <=> ~neg_int(pre.ival).ok)
          /\ (arg = Negative /\ ~panicked) => ival = neg_int(pre.ival).val
          /\ (arg = Negative /\ pre.ival # MinInt) => (~panicked /\ ival = 0 - pre.ival)
          /\ arg # Negative => (~panicked /\ ival = pre.ival)
          /\ (arg = Zero /\ pre.ival # 0) => Ok(ival) # int_mul_Sign(pre.ival, Zero)
          /\ (arg = Zero /\ pre.ival = 0) => Ok(ival) = int_mul_Sign(pre.ival, Zero)
    /\ op = "float_mul_assign" =>
          /\ arg = Negative => fval = [neg |-> ~pre.fval.neg, class |-> pre.fval.class,
                                       mag |-> pre.fval.mag]
          /\ arg # Negative => fval = pre.fval
          /\ (arg = Zero /\ pre.fval.class # "zero") =>
                 fval # float_mul_Sign(pre.fval, Zero)
          /\ (arg = Zero /\ pre.fval = zero_float) =>
                 fval = float_mul_Sign(pre.fval, Zero)

Wit_C3_AssignAsymmetry ==
    /\ op = "int_mul_assign" /\ arg = Zero /\ pre.ival = 3 /\ ival = 3
    /\ int_mul_Sign(pre.ival, Zero) = Ok(0)

\* C4: for every pair of signs (a, b), a / b = a * b, and after a *= b or
\* a /= b the left operand holds the table entry of (a, b).
Thm_C4_SignOpsAgree ==
    /\ \A a \in Sign : \A b \in Sign :
          /\ Sign_div(a, b) = Sign_mul(a, b)
          /\ Sign_mul_assign(a, b) = MulTable(a, b)
          /\ Sign_div_assign(a, b) = MulTable(a, b)
    /\ op = "Sign_div" => ret.sign = MulTable(pre.sign, arg)
    /\ op \in {"Sign_mul_assign", "Sign_div_assign"} => sign = MulTable(pre.sign, arg)

Wit_C4_SignOpsAgree ==
    op = "Sign_div_assign" /\ pre.sign = Positive /\ arg = Zero /\ sign = Zero

\* C5: for every numeric v and sign s, v / s has the outcome of v * s
\* (canonical zero when s is Zero) and v /= s has the effect of v *= s
\* (negated iff s is Negative, otherwise unchanged).
Thm_C5_DivIsMul ==
    /\ \A s \in Sign :
          /\ int_div(ival, s) = int_mul_Sign(ival, s)
          /\ int_div_assign(ival, s) = int_mul_assign(ival, s)
          /\ float_div(fval, s) = float_mul_Sign(fval, s)
          /\ float_div_assign(fval, s) = float_mul_assign(fval, s)
    /\ (op = "int_div" /\ arg = Zero) => (~panicked /\ ret.ival = 0)
    /\ (op = "int_div" /\ arg = Positive) => (~panicked /\ ret.ival = pre.ival)
    /\ (op = "int_div" /\ arg = Negative /\ pre.ival # MinInt) =>
           (~panicked /\ ret.ival = 0 - pre.ival)
    /\ (op = "int_div_assign" /\ arg # Negative) => (~panicked /\ ival = pre.ival)
    /\ (op = "int_div_assign" /\ arg = Negative /\ pre.ival # MinInt) =>
           (~panicked /\ ival = 0 - pre.ival)
    /\ (op = "float_div" /\ arg = Zero) => ret.fval = zero_float
    /\ (op = "float_div_assign" /\ arg # Negative) => fval = pre.fval
    /\ (op = "float_div_assign" /\ arg = Negative) => fval.neg # pre.fval.neg

Wit_C5_DivIsMul ==
    op = "int_div" /\ arg = Zero /\ pre.ival = -3 /\ ret.ival = 0

\* C6: no operation has an error outcome: every operation on every value,
\* the minimum value of the integer type included, completes with a value.
Claim_C6_NoErrorOutcome == ~panicked

\* C7: for every sign s exactly one of is_positive(s), is_negative(s),
\* is_zero(s) is true, and each is true precisely for its own variant.
Thm_C7_Predicates ==
    /\ \A s \in Sign :
          /\ is_positive(s) <=> s = Positive
          /\ is_negative(s) <=> s = Negative
          /\ is_zero(s) <=> s = Zero
          /\ Cardinality({q \in {"p", "n", "z"} :
                 \/ q = "p" /\ is_positive(s)
                 \/ q = "n" /\ is_negative(s)
                 \/ q = "z" /\ is_zero(s)}) = 1
    /\ op = "is_positive" => (ret.bool <=> pre.sign = Positive)
    /\ op = "is_negative" => (ret.bool <=> pre.sign = Negative)
    /\ op = "is_zero" => (ret.bool <=> pre.sign = Zero)

Wit_C7_Predicates ==
    op = "is_zero" /\ pre.sign = Zero /\ ret.bool

\* C8: negate swaps Positive and Negative and fixes Zero, so
\* negate(negate(s)) = s for every sign s.
Thm_C8_NegateInvolution ==
    /\ negate(Positive) = Negative
    /\ negate(Negative) = Positive
    /\ negate(Zero) = Zero
    /\ \A s \in Sign : negate(negate(s)) = s
    /\ op = "negate" => (negate(sign) = pre.sign /\ (pre.sign = Zero <=> sign = Zero))

Wit_C8_NegateInvolution ==
    op = "negate" /\ pre.sign = Positive /\ sign = Negative

\* C9: for every value v of a numeric type, (v * Positive) * Positive = v
\* and (v * Negative) * Negative = v, the minimum value of the integer type
\* included.
Claim_C9_RoundTrip ==
    /\ \A s \in {Positive, Negative} :
          LET r1 == int_mul_Sign(ival, s)
          IN  r1.ok /\ int_mul_Sign(r1.val, s) = Ok(ival)
    /\ \A s \in {Positive, Negative} :
          float_mul_Sign(float_mul_Sign(fval, s), s) = fval

====
